---- MODULE Spec2Model ----
(***************************************************************************)
(* LX200 WiFi bridge (src/src/LX200WifiBridge.cpp): a TCP client sends     *)
(* ':'...'#' framed LX200 commands, the bridge forwards each one over a    *)
(* serial line to the Teensy mount controller and relays the reply.        *)
(*                                                                         *)
(* Byte strings are sequences of one-character strings; the byte 0x06 is   *)
(* written "ACK", '\n' "LF" and '\r' "CR".  Time is kept as elapsed      *)
(* values: idle = millis() - start and waited = millis() - (ackStart |     *)
(* startWait | readStart), each as the program read it last; a later read  *)
(* gives a value the environment chooses, never a smaller one.             *)
(***************************************************************************)
EXTENDS Integers, Sequences, FiniteSets, TLC

VARIABLES
  pc,             \* position of the single thread of control
  caller,         \* who called processLX200Command: "client" or "loop"
  sock,           \* bytes the client has sent and the bridge has not read
  sent,           \* number of chunks the client sent on this connection
  lx200Cmd,       \* handleLX200Client: String lx200Cmd
  receivingCmd,   \* handleLX200Client: bool receivingCmd
  idle,           \* millis() - start, as the outer loop read it last
  truncCmd,       \* processLX200Command: String truncCmd
  waited,         \* millis() - ackStart / startWait / readStart
  tResponse,      \* readTeensyResponse: String tResponse
  rx,             \* SERIAL_TEENSY receive buffer
  teensySent,     \* bytes the controller sent since the last 'L'
  wifiIpReceived, \* loop: bool wifiIpReceived
  resetLow,       \* digitalRead(RESET_PIN) == LOW
  fed,            \* history: bytes read since the last dispatched command
  dispatched,     \* history: command the last byte read has dispatched
  response,       \* history: what processLX200Command returned for it
  readEnd,        \* history: how readTeensyResponse ended for it
  clientOut,      \* history: bytes written to the client for the last byte
  teensyOut,      \* history: Transport Channel events of the last dispatch
  hsEnd,          \* history: how handshakeTeensy ended for it
  staleRx,        \* history: receive buffer when its command was written
  ended           \* history: how the last connection ended

vars == <<pc, caller, sock, sent, lx200Cmd, receivingCmd, idle, truncCmd,
          waited, tResponse, rx, teensySent, wifiIpReceived, resetLow, fed,
          dispatched, response, readEnd, clientOut, teensyOut, hsEnd,
          staleRx, ended>>

(***************************************************************************)
(* Bounds of the model.                                                    *)
(***************************************************************************)
MaxSend == 2
MaxRx == 1
MaxTeensy == 2

(***************************************************************************)
(* Program constants.                                                      *)
(***************************************************************************)
TEENSY_ACK_TIMEOUT == 500
FIRST_BYTE_TIMEOUT == 2300
TERMINATOR_TIMEOUT == 350
CLIENT_TIMEOUT == 10000

ACK == "ACK"
READ == "READ"

(***************************************************************************)
(* Arduino String helpers.                                                 *)
(***************************************************************************)
\* String::indexOf(char): 0-based index of the first occurrence, or -1
indexOf(s, ch) ==
  IF \E i \in 1..Len(s) : s[i] = ch
  THEN (CHOOSE i \in 1..Len(s) : s[i] = ch /\ \A j \in 1..(i - 1) : s[j] # ch) - 1
  ELSE -1

\* String::substring(from, to): characters from..to-1, 0-based
substring(s, from, to) == SubSeq(s, from + 1, to)

\* String::substring(from): from the 0-based index to the end
substringFrom(s, from) == SubSeq(s, from + 1, Len(s))

\* String::startsWith(prefix)
startsWith(s, prefix) ==
  /\ Len(s) >= Len(prefix)
  /\ SubSeq(s, 1, Len(prefix)) = prefix

\* String::endsWith("#")
endsWithHash(s) == Len(s) > 0 /\ s[Len(s)] = "#"

(***************************************************************************)
(* Command tables.                                                         *)
(***************************************************************************)
NoResponseSet ==
  { <<":", "M", "e", "#">>, <<":", "M", "n", "#">>, <<":", "M", "s", "#">>,
    <<":", "M", "w", "#">>, <<":", "Q", "e", "#">>, <<":", "Q", "n", "#">>,
    <<":", "Q", "s", "#">>, <<":", "Q", "w", "#">>, <<":", "R", "C", "#">>,
    <<":", "R", "F", "#">>, <<":", "R", "G", "#">>, <<":", "R", "M", "#">>,
    <<":", "R", "S", "#">>, <<":", "W", "1", "#">>, <<":", "C", "S", "#">> }

\* the table without its entry for :RS#
isNoResponseCommand_NoRS(cmd) == cmd \in NoResponseSet \ { <<":", "R", "S", "#">> }

isNoResponseCommand(cmd) == cmd \in NoResponseSet

CmdGVP == <<":", "G", "V", "P", "#">>
CmdGVN == <<":", "G", "V", "N", "#">>
CmdGVD == <<":", "G", "V", "D", "#">>
CmdGVT == <<":", "G", "V", "T", "#">>
CmdGI == <<":", "G", "I", "#">>
CmdQ == <<":", "Q", "#">>
CmdSG == <<":", "S", "G", "+", "0", "6", ".", "0", "#">>
PrefixSC == <<":", "S", "C">>

ProductName ==
  <<"O", "n", "S", "t", "e", "p", "X", ".", "D", "D", "S", "c", "o", "p",
    "e", "X", "#">>
FirmwareVersion == <<"2", ".", "0", "#">>
FirmwareDate == <<"M", "a", "y", " ", "2", "0", "2", "5", "#">>
FirmwareTime == <<"0", "8", ":", "0", "2", ":", "0", "0", "#">>

PlanetaryReply ==
  <<"1", "U", "p", "d", "a", "t", "i", "n", "g", " ", "P", "l", "a", "n",
    "e", "t", "a", "r", "y", " ", "D", "a", "t", "a", "#", " ", " ", " ",
    " ", " ", " ", " ", " ", " ", " ", "#">>

\* the table without its entry for :GVT#
checkForAppSpecificCmds_NoGVT(cmd) ==
  IF cmd = CmdGVP THEN ProductName
  ELSE IF cmd = CmdGVN THEN FirmwareVersion
  ELSE IF cmd = CmdGVD THEN FirmwareDate
  ELSE <<>>

checkForAppSpecificCmds(cmd) ==
  IF cmd = CmdGVP THEN ProductName
  ELSE IF cmd = CmdGVN THEN FirmwareVersion
  ELSE IF cmd = CmdGVD THEN FirmwareDate
  ELSE IF cmd = CmdGVT THEN FirmwareTime
  ELSE <<>>

\* the rewrite that cuts at the '.' and loses the terminator
truncate_NoHash(cmd) ==
  IF cmd = CmdSG
  THEN LET dotIndex == indexOf(cmd, ".")
           hashIndex == indexOf(cmd, "#")
       IN IF dotIndex # -1 /\ hashIndex # -1 /\ dotIndex < hashIndex
          THEN substring(cmd, 0, dotIndex)
          ELSE cmd
  ELSE cmd

\* processLX200Command: the outgoing timezone rewrite
truncate(cmd) ==
  IF cmd = CmdSG
  THEN LET dotIndex == indexOf(cmd, ".")
           hashIndex == indexOf(cmd, "#")
       IN IF dotIndex # -1 /\ hashIndex # -1 /\ dotIndex < hashIndex
          THEN substring(cmd, 0, dotIndex) \o substringFrom(cmd, hashIndex)
          ELSE cmd
  ELSE cmd

\* the stripping that knows "1#" only
stripBool_OnlyOne(resp) ==
  IF resp = <<"1", "#">>
  THEN substring(resp, 0, 1)
  ELSE resp

\* handleLX200Client: "Remove hash from bool responses"
stripBool(resp) ==
  IF resp = <<"1", "#">> \/ resp = <<"0", "#">>
  THEN substring(resp, 0, 1)
  ELSE resp

\* the overrides with :SC# compared for equality
override_ExactSC(cmd, resp) ==
  LET r1 == IF cmd = <<":", "S", "C", "#">> THEN PlanetaryReply ELSE resp
  IN IF cmd = CmdQ THEN <<"1">> ELSE r1

\* the overrides without the one for :Q#
override_NoQ(cmd, resp) ==
  IF startsWith(cmd, PrefixSC) THEN PlanetaryReply ELSE resp

\* handleLX200Client: the reply overrides for :SC... and :Q#
override(cmd, resp) ==
  LET r1 == IF startsWith(cmd, PrefixSC) THEN PlanetaryReply ELSE resp
  IN IF cmd = CmdQ THEN <<"1">> ELSE r1

\* handleLX200Client: the bytes written to the client after
\* processLX200Command returned resp for cmd
clientReply(cmd, resp) ==
  LET r == stripBool(resp)
  IN IF isNoResponseCommand(cmd) THEN <<>>
     ELSE IF Len(r) > 0 THEN override(cmd, r)
     ELSE <<>>

\* readTeensyResponse: bytes skipped as junk
isJunk(rc) == rc = "K" \/ rc = "LF" \/ rc = "CR"

\* the terminator is left out of the text
accumulate_DropHash(acc, rc) ==
  IF isJunk(rc) \/ rc = "#" THEN acc ELSE Append(acc, rc)

\* readTeensyResponse: what one byte read by the inner loop does to tResponse
accumulate(acc, rc) == IF isJunk(rc) THEN acc ELSE Append(acc, rc)

\* a ':' begins a new command also while one is being received
startsCommand_Restart(receiving, c) == c = ":"

\* handleLX200Client: does this byte begin a new command
startsCommand(receiving, c) == ~receiving /\ c = ":"

\* handleLX200Client: does this byte complete a command
endsCommand(receiving, c) == c = "#" /\ receiving

\* a bare terminator is returned when no first byte has arrived
noFirstByteReply_Hash == <<"#">>

\* readTeensyResponse: what is returned when no first byte has arrived
noFirstByteReply == <<>>

\* loop: the reply to :GI# is long enough and ends with '#'
validIpReply(msg) == Len(msg) > 1 /\ endsWithHash(msg)

(***************************************************************************)
(* Inputs.                                                                 *)
(***************************************************************************)
ClientBytes == {":", "#", "Q", ACK}

\* a no-response command with the next command right behind it
RSThenGR == <<":", "R", "S", "#", ":", "G", "R", "#">>

ClientCommands ==
  NoResponseSet \cup
  { CmdGVP, CmdGVN, CmdGVD, CmdGVT, CmdQ, CmdSG,
    <<":", "S", "C", "#">>, <<":", "S", "C", "1", "#">>,
    <<":", "G", "D", "#">>, RSThenGR }

\* a command with a stray '#' in front that is cut short, and a command with
\* a probe byte inside
ClientFragments == { <<"#", ":", "Q">>, <<":", "Q", ACK, "#">> }

Chunks == { <<b>> : b \in ClientBytes } \cup ClientCommands \cup ClientFragments

\* what a client sends after the first chunk of a connection
FollowUps ==
  { <<b>> : b \in ClientBytes } \cup
  { <<":", "G", "D", "#">>, <<":", "R", "S", "#">>, CmdQ }

TeensyBytes == {"K", "LF", "#", "0", "1"}

\* no connection has ended since loop was entered
NotEnded == [how |-> "none", receiving |-> FALSE]

\* the values a later read of millis() can give for an elapsed time
Later(cur, points) == {cur} \cup { t \in points : t > cur }

(***************************************************************************)
(* Initial state: setup() has run.                                         *)
(***************************************************************************)
Init ==
  /\ pc = "loop"
  /\ caller = "loop"
  /\ sock = <<>>
  /\ sent = 0
  /\ lx200Cmd = <<>>
  /\ receivingCmd = FALSE
  /\ idle = 0
  /\ truncCmd = <<>>
  /\ waited = 0
  /\ tResponse = <<>>
  /\ rx = <<>>
  /\ teensySent = 0
  /\ wifiIpReceived = FALSE
  /\ resetLow = FALSE
  /\ fed = <<>>
  /\ dispatched = <<>>
  /\ response = <<>>
  /\ readEnd = "none"
  /\ clientOut = <<>>
  /\ teensyOut = <<>>
  /\ hsEnd = "none"
  /\ staleRx = <<>>
  /\ ended = NotEnded

(***************************************************************************)
(* Environment: the client and the controller.                             *)
(***************************************************************************)
\* The client's next chunk of bytes.  The bridge observes the socket buffer
\* only through available() and read() in its inner loop, so a chunk is
\* delivered when the bridge is in that loop and has read what came before.
\* A connection opens with any chunk and goes on with the follow-ups.
ClientSend(chunk) ==
  /\ pc \in {"inner", "yield"}
  /\ sock = <<>>
  /\ sent < MaxSend
  /\ sent > 0 => chunk \in FollowUps
  /\ sock' = chunk
  /\ sent' = sent + 1
  /\ UNCHANGED <<ended, pc, caller, lx200Cmd, receivingCmd, idle, truncCmd, waited,
                 tResponse, rx, teensySent, wifiIpReceived, resetLow, fed,
                 dispatched, response, readEnd, clientOut, teensyOut, hsEnd, staleRx>>

\* The controller puts a byte on the serial line.  The bridge looks at the
\* receive buffer only while a forward is in progress, so a byte sent
\* between two forwards is delivered when the next handshake has begun.
TeensySend(b) ==
  /\ pc \in {"hs", "hsK", "rd1", "rd2"}
  /\ Len(rx) < MaxRx
  /\ teensySent < MaxTeensy
  /\ rx' = Append(rx, b)
  /\ teensySent' = teensySent + 1
  /\ UNCHANGED <<ended, pc, caller, sock, sent, lx200Cmd, receivingCmd, idle,
                 truncCmd, waited, tResponse, wifiIpReceived, resetLow, fed,
                 dispatched, response, readEnd, clientOut, teensyOut, hsEnd, staleRx>>

\* The controller pulls the reset line low.  The bridge reads the line only
\* at the end of loop, so the line is seen to go low there.
TeensyReset ==
  /\ pc = "reset"
  /\ ~resetLow
  /\ resetLow' = TRUE
  /\ UNCHANGED <<ended, pc, caller, sock, sent, lx200Cmd, receivingCmd, idle,
                 truncCmd, waited, tResponse, rx, teensySent, wifiIpReceived,
                 fed, dispatched, response, readEnd, clientOut, teensyOut, hsEnd, staleRx>>

(***************************************************************************)
(* processLX200Command, from the handshake on.                             *)
(***************************************************************************)
\* processLX200Command for a command that has no local answer: the rewrite,
\* then handshakeTeensy up to its polling loop
BeginForward(cmd, who) ==
  /\ truncCmd' = truncate(cmd)
  /\ teensyOut' = <<"L">>
  /\ hsEnd' = "none"
  /\ staleRx' = <<>>
  /\ teensySent' = 0
  /\ waited' = 0
  /\ caller' = who
  /\ pc' = "hs"

\* the clock moves on during one iteration of a polling loop
Elapse(limit) ==
  \E t \in Later(waited, {limit}) : waited' = t

\* the command is written again after a handshake that got no 'K'
SendCommand_Retry ==
  /\ teensyOut' = IF pc = "hsK"
                  THEN teensyOut \o truncCmd \o <<READ>>
                  ELSE teensyOut \o truncCmd \o truncCmd \o <<READ>>
  /\ tResponse' = <<>>
  /\ waited' = 0
  /\ pc' = "rd1"

\* processLX200Command after handshakeTeensy: the command is written and
\* readTeensyResponse starts
SendCommand ==
  /\ teensyOut' = teensyOut \o truncCmd \o <<READ>>
  /\ tResponse' = <<>>
  /\ waited' = 0
  /\ pc' = "rd1"

\* return in the place of break: handleLX200Client is left
afterDispatch_Return(cmd) == IF isNoResponseCommand(cmd) THEN "poll" ELSE "inner"

\* handleLX200Client after a dispatch: break out of the inner loop for a
\* no-response command, the next iteration of the inner loop otherwise
afterDispatch(cmd) == IF isNoResponseCommand(cmd) THEN "yield" ELSE "inner"

\* processLX200Command returns resp to its caller, which handles it
Return(who, cmd, resp, how) ==
  /\ response' = resp
  /\ readEnd' = how
  /\ truncCmd' = <<>>
  /\ tResponse' = <<>>
  /\ waited' = 0
  /\ IF who = "client"
     THEN /\ clientOut' = clientReply(cmd, resp)
          /\ pc' = afterDispatch(cmd)
          /\ UNCHANGED wifiIpReceived
     ELSE /\ wifiIpReceived' = validIpReply(resp)
          /\ pc' = "reset"
          /\ UNCHANGED clientOut

\* the wait for 'K' that gives the forward up when no 'K' has come
HandshakePoll_Abort ==
  /\ pc = "hs"
  /\ IF waited < TEENSY_ACK_TIMEOUT
     THEN IF rx # <<>>
          THEN /\ rx' = Tail(rx)
               /\ IF Head(rx) = "K"
                  THEN pc' = "hsK" /\ UNCHANGED waited
                  ELSE pc' = "hs" /\ Elapse(TEENSY_ACK_TIMEOUT)
               /\ UNCHANGED <<teensyOut, tResponse, hsEnd, staleRx, truncCmd,
                              response, readEnd, clientOut, wifiIpReceived>>
          ELSE /\ Elapse(TEENSY_ACK_TIMEOUT)
               /\ UNCHANGED <<pc, rx, teensyOut, tResponse, hsEnd, staleRx,
                              truncCmd, response, readEnd, clientOut,
                              wifiIpReceived>>
     ELSE /\ Return(caller, lx200Cmd, <<>>, "none")
          /\ hsEnd' = "timeout"
          /\ UNCHANGED <<rx, teensyOut, staleRx>>
  /\ UNCHANGED <<ended, caller, sock, idle, sent, lx200Cmd, receivingCmd,
                 teensySent, resetLow, fed, dispatched>>

\* handshakeTeensy: one iteration of the wait for 'K'
HandshakePoll ==
  /\ pc = "hs"
  /\ IF waited < TEENSY_ACK_TIMEOUT
     THEN IF rx # <<>>
          THEN /\ rx' = Tail(rx)
               /\ IF Head(rx) = "K"
                  THEN pc' = "hsK" /\ UNCHANGED waited
                  ELSE pc' = "hs" /\ Elapse(TEENSY_ACK_TIMEOUT)
               /\ UNCHANGED <<teensyOut, tResponse, hsEnd, staleRx>>
          ELSE /\ Elapse(TEENSY_ACK_TIMEOUT)
               /\ UNCHANGED <<pc, rx, teensyOut, tResponse, hsEnd,
                             staleRx>>
     ELSE /\ SendCommand
          /\ hsEnd' = "timeout"
          /\ staleRx' = rx
          /\ UNCHANGED rx
  /\ UNCHANGED <<ended, caller, sock, idle, sent, lx200Cmd, receivingCmd, truncCmd,
                 teensySent, wifiIpReceived, resetLow, fed, dispatched,
                 response, readEnd, clientOut>>

\* handshakeTeensy after 'K': delay(3), then one iteration of the loop that
\* empties the receive buffer; the function returns when nothing is available
HandshakeSettle ==
  /\ pc = "hsK"
  /\ IF rx # <<>>
     THEN /\ rx' = Tail(rx)
          /\ UNCHANGED <<pc, waited, teensyOut, tResponse, hsEnd, staleRx>>
     ELSE /\ SendCommand
          /\ hsEnd' = "K"
          /\ staleRx' = rx
          /\ UNCHANGED rx
  /\ UNCHANGED <<ended, caller, sock, idle, sent, lx200Cmd, receivingCmd, truncCmd,
                 teensySent, wifiIpReceived, resetLow, fed, dispatched,
                 response, readEnd, clientOut>>

\* readTeensyResponse: the wait for at least one byte
WaitFirstByte ==
  /\ pc = "rd1"
  /\ IF waited < FIRST_BYTE_TIMEOUT /\ rx = <<>>
     THEN /\ Elapse(FIRST_BYTE_TIMEOUT)
          /\ UNCHANGED <<pc, truncCmd, tResponse, response, readEnd,
                         clientOut, wifiIpReceived>>
     ELSE IF rx = <<>>
          THEN Return(caller, lx200Cmd, noFirstByteReply, "nofirst")
          ELSE /\ pc' = "rd2"
               /\ waited' = 0
               /\ UNCHANGED <<truncCmd, tResponse, response, readEnd,
                              clientOut, wifiIpReceived>>
  /\ UNCHANGED <<ended, caller, sock, sent, lx200Cmd, receivingCmd, idle, rx,
                 teensySent, resetLow, fed, dispatched, teensyOut, hsEnd, staleRx>>

\* readTeensyResponse: one iteration of the inner loop of the read until
\* '#', which reads a byte while one is available; when none is, the outer
\* loop reads the clock and goes on or gives up
ReadUntilHash ==
  /\ pc = "rd2"
  /\ IF rx # <<>>
     THEN LET rc == Head(rx)
          IN /\ rx' = Tail(rx)
             /\ IF rc = "#"
                THEN Return(caller, lx200Cmd, accumulate(tResponse, rc), "hash")
                ELSE /\ tResponse' = accumulate(tResponse, rc)
                     /\ UNCHANGED <<pc, waited, truncCmd, response, readEnd,
                                    clientOut, wifiIpReceived>>
     ELSE /\ \E t \in Later(waited, {TERMINATOR_TIMEOUT}) :
               IF t < TERMINATOR_TIMEOUT
               THEN /\ waited' = t
                    /\ UNCHANGED <<pc, truncCmd, tResponse, response, readEnd,
                                   clientOut, wifiIpReceived>>
               ELSE Return(caller, lx200Cmd, tResponse, "partial")
          /\ UNCHANGED rx
  /\ UNCHANGED <<ended, caller, sock, sent, lx200Cmd, receivingCmd, idle,
                 teensySent, resetLow, fed, dispatched, teensyOut, hsEnd,
                 staleRx>>

(***************************************************************************)
(* handleLX200Client.                                                      *)
(***************************************************************************)
\* loop calls handleLX200Client: a client is taken over, or there is none
Accept ==
  /\ pc = "loop"
  /\ \E hasClient \in BOOLEAN :
       IF hasClient
       THEN /\ pc' = "inner"
            /\ caller' = "client"
       ELSE /\ pc' = "poll"
            /\ UNCHANGED caller
  /\ UNCHANGED <<ended, sock, sent, lx200Cmd, receivingCmd, idle, truncCmd, waited,
                 tResponse, rx, teensySent, wifiIpReceived, resetLow, fed,
                 dispatched, response, readEnd, clientOut, teensyOut, hsEnd, staleRx>>

\* a byte is read from the client: the part every byte has in common
ReadByte(c) ==
  /\ pc = "inner"
  /\ sock # <<>>
  /\ c = Head(sock)
  /\ sock' = Tail(sock)
  /\ idle' = 0
  /\ fed' = IF dispatched # <<>> THEN <<c>> ELSE Append(fed, c)

\* a step that dispatches nothing: the record of the last dispatch ends
NoDispatch ==
  /\ dispatched' = <<>>
  /\ response' = <<>>
  /\ readEnd' = "none"
  /\ teensyOut' = <<>>
  /\ hsEnd' = "none"
  /\ staleRx' = <<>>

\* the probe byte without the continue: it goes on into the accumulator
ProbeByte_FallThrough ==
  /\ pc = "inner" /\ sock # <<>>
  /\ \E c \in {ACK} :
    /\ ReadByte(c)
    /\ clientOut' = <<"A">>
    /\ lx200Cmd' = Append(lx200Cmd, c)
    /\ NoDispatch
    /\ UNCHANGED <<ended, pc, caller, sent, receivingCmd, truncCmd,
                   waited, tResponse, rx, teensySent, wifiIpReceived,
                   resetLow>>

\* the probe byte 0x06
ProbeByte ==
  /\ pc = "inner" /\ sock # <<>>
  /\ \E c \in {ACK} :
    /\ ReadByte(c)
    /\ clientOut' = <<"A">>
    /\ NoDispatch
    /\ UNCHANGED <<ended, pc, caller, sent, lx200Cmd, receivingCmd, truncCmd,
                   waited, tResponse, rx, teensySent, wifiIpReceived,
                   resetLow>>

\* a ':' that begins a new command
StartCommand ==
  /\ pc = "inner" /\ sock # <<>>
  /\ \E c \in {Head(sock)} :
    /\ ReadByte(c)
    /\ c # ACK
    /\ startsCommand(receivingCmd, c)
    /\ receivingCmd' = TRUE
    /\ lx200Cmd' = <<":">>
    /\ clientOut' = <<>>
    /\ NoDispatch
    /\ UNCHANGED <<ended, pc, caller, sent, truncCmd, waited, tResponse, rx,
                   teensySent, wifiIpReceived, resetLow>>

\* any other byte that does not complete a command
AppendByte ==
  /\ pc = "inner" /\ sock # <<>>
  /\ \E c \in {Head(sock)} :
    /\ ReadByte(c)
    /\ c # ACK
    /\ ~startsCommand(receivingCmd, c)
    /\ ~endsCommand(receivingCmd, c)
    /\ lx200Cmd' = Append(lx200Cmd, c)
    /\ clientOut' = <<>>
    /\ NoDispatch
    /\ UNCHANGED <<ended, pc, caller, sent, receivingCmd, truncCmd, waited,
                   tResponse, rx, teensySent, wifiIpReceived, resetLow>>

\* the '#' that completes a command with a local answer
DispatchLocal ==
  /\ pc = "inner" /\ sock # <<>>
  /\ \E c \in {Head(sock)} :
    /\ ReadByte(c)
    /\ c # ACK
    /\ ~startsCommand(receivingCmd, c)
    /\ endsCommand(receivingCmd, c)
    /\ LET cmd == Append(lx200Cmd, c)
           localResp == checkForAppSpecificCmds(cmd)
       IN /\ Len(localResp) # 0
          /\ lx200Cmd' = cmd
          /\ dispatched' = cmd
          /\ Return("client", cmd, localResp, "none")
    /\ receivingCmd' = FALSE
    /\ teensyOut' = <<>>
    /\ hsEnd' = "none"
    /\ staleRx' = <<>>
    /\ UNCHANGED <<ended, caller, sent, rx, teensySent, resetLow>>

\* the '#' that completes a command that is forwarded
DispatchForward ==
  /\ pc = "inner" /\ sock # <<>>
  /\ \E c \in {Head(sock)} :
    /\ ReadByte(c)
    /\ c # ACK
    /\ ~startsCommand(receivingCmd, c)
    /\ endsCommand(receivingCmd, c)
    /\ LET cmd == Append(lx200Cmd, c)
       IN /\ Len(checkForAppSpecificCmds(cmd)) = 0
          /\ lx200Cmd' = cmd
          /\ dispatched' = cmd
          /\ BeginForward(cmd, "client")
    /\ receivingCmd' = FALSE
    /\ clientOut' = <<>>
    /\ response' = <<>>
    /\ readEnd' = "none"
    /\ UNCHANGED <<ended, sent, tResponse, rx, wifiIpReceived, resetLow>>

\* no byte is available: the inner loop ends
InnerEmpty ==
  /\ pc = "inner"
  /\ sock = <<>>
  /\ pc' = "yield"
  /\ fed' = IF dispatched # <<>> THEN <<>> ELSE fed
  /\ clientOut' = <<>>
  /\ NoDispatch
  /\ UNCHANGED <<ended, caller, sock, sent, lx200Cmd, receivingCmd, idle, truncCmd,
                 waited, tResponse, rx, teensySent, wifiIpReceived, resetLow>>

\* handleLX200Client returns: the client object and the locals are destroyed
EndConnection ==
  /\ sock' = <<>>
  /\ sent' = 0
  /\ lx200Cmd' = <<>>
  /\ receivingCmd' = FALSE
  /\ idle' = 0
  /\ fed' = <<>>
  /\ dispatched' = <<>>
  /\ response' = <<>>
  /\ readEnd' = "none"
  /\ clientOut' = <<>>
  /\ teensyOut' = <<>>
  /\ hsEnd' = "none"
  /\ staleRx' = <<>>

\* the idle-timeout test that lets one more time unit pass
timedOut_Late(elapsed) == elapsed > CLIENT_TIMEOUT + 1

\* the idle-timeout test of the connection loop
timedOut(elapsed) == elapsed > CLIENT_TIMEOUT

\* millis() - start as the head of the outer loop can read it.  Straight
\* after the break that follows a no-response command it is the time the
\* forward took, which stays below the limit (500 + 3 + 2300 + 350); after an
\* inner loop that found no byte it is any later value.
sinceLastByte ==
  IF dispatched # <<>>
  THEN {idle}
  ELSE Later(idle, {CLIENT_TIMEOUT, CLIENT_TIMEOUT + 1})

\* yield(), then the head of the outer loop: connected and idle timeout
OuterLoop ==
  /\ pc = "yield"
  /\ \E alive \in BOOLEAN, t \in sinceLastByte :
       IF ~alive \/ timedOut(t)
       THEN /\ pc' = "poll"
            /\ ended' = [how |-> IF alive THEN "timeout" ELSE "closed",
                         receiving |-> receivingCmd]
            /\ EndConnection
       ELSE /\ pc' = "inner"
            /\ idle' = t
            /\ fed' = IF dispatched # <<>> THEN <<>> ELSE fed
            /\ clientOut' = <<>>
            /\ NoDispatch
            /\ UNCHANGED <<sock, sent, lx200Cmd, receivingCmd, ended>>
  /\ UNCHANGED <<caller, truncCmd, waited, tResponse, rx, teensySent,
                 wifiIpReceived, resetLow>>

(***************************************************************************)
(* loop.                                                                   *)
(***************************************************************************)
\* the poll run off a timer, also while a response read is waiting
LoopPoll_Timer ==
  /\ pc \in {"poll", "rd1"}
  /\ \E due \in BOOLEAN :
       IF ~wifiIpReceived /\ due
       THEN BeginForward(CmdGI, "loop")
       ELSE /\ pc' = IF pc = "poll" THEN "reset" ELSE pc
            /\ UNCHANGED <<truncCmd, teensyOut, teensySent, waited, caller,
                           hsEnd, staleRx>>
  /\ UNCHANGED <<ended, sock, sent, lx200Cmd, receivingCmd, idle, tResponse,
                 rx, wifiIpReceived, resetLow, fed, dispatched, response,
                 readEnd, clientOut>>

\* the :GI# poll for the address of the WiFi display
LoopPoll ==
  /\ pc = "poll"
  /\ \E due \in BOOLEAN :
       IF ~wifiIpReceived /\ due
       THEN BeginForward(CmdGI, "loop")
       ELSE /\ pc' = "reset"
            /\ UNCHANGED <<truncCmd, teensyOut, teensySent, waited, caller,
                         hsEnd, staleRx>>
  /\ UNCHANGED <<ended, sock, sent, lx200Cmd, receivingCmd, idle, tResponse, rx,
                 wifiIpReceived, resetLow, fed, dispatched, response, readEnd,
                 clientOut>>

\* the reset line: esp_restart() and setup(), or the next round of loop
CheckReset ==
  /\ pc = "reset"
  /\ pc' = "loop"
  /\ caller' = "loop"
  /\ ended' = NotEnded
  /\ response' = <<>>
  /\ readEnd' = "none"
  /\ teensyOut' = <<>>
  /\ hsEnd' = "none"
  /\ staleRx' = <<>>
  /\ IF resetLow
     THEN /\ rx' = <<>>
          /\ teensySent' = 0
          /\ wifiIpReceived' = FALSE
          /\ resetLow' = FALSE
     ELSE UNCHANGED <<rx, teensySent, wifiIpReceived, resetLow>>
  /\ UNCHANGED <<sock, sent, lx200Cmd, receivingCmd, idle, truncCmd, waited,
                 tResponse, fed, dispatched, clientOut>>

Next ==
  \/ \E chunk \in Chunks : ClientSend(chunk)
  \/ \E b \in TeensyBytes : TeensySend(b)
  \/ TeensyReset
  \/ Accept
  \/ ProbeByte
  \/ StartCommand
  \/ AppendByte
  \/ DispatchLocal
  \/ DispatchForward
  \/ InnerEmpty
  \/ OuterLoop
  \/ HandshakePoll
  \/ HandshakeSettle
  \/ WaitFirstByte
  \/ ReadUntilHash
  \/ LoopPoll
  \/ CheckReset

Spec == Init /\ [][Next]_vars

(***************************************************************************)
(* The same program with a controller that may pull the reset line low at  *)
(* any time and a client that goes on polling, as a planetarium program    *)
(* does for as long as it is connected.  The single thread keeps running   *)
(* and the clock keeps advancing.                                          *)
(***************************************************************************)
\* The controller pulls the reset line low and holds it there.
ResetAsserted ==
  /\ ~resetLow
  /\ resetLow' = TRUE
  /\ UNCHANGED <<pc, caller, sock, sent, lx200Cmd, receivingCmd, idle,
                 truncCmd, waited, tResponse, rx, teensySent, wifiIpReceived,
                 fed, dispatched, response, readEnd, clientOut, teensyOut,
                 hsEnd, staleRx, ended>>

\* The client sends one more :GD# after the chunks it had to send.
ClientPoll ==
  /\ pc \in {"inner", "yield"}
  /\ sock = <<>>
  /\ sent = MaxSend
  /\ sock' = <<":", "G", "D", "#">>
  /\ UNCHANGED <<pc, caller, sent, lx200Cmd, receivingCmd, idle, truncCmd,
                 waited, tResponse, rx, teensySent, wifiIpReceived, resetLow,
                 fed, dispatched, response, readEnd, clientOut, teensyOut,
                 hsEnd, staleRx, ended>>

\* the steps of the bridge itself
BridgeStep ==
  \/ Accept
  \/ ProbeByte
  \/ StartCommand
  \/ AppendByte
  \/ DispatchLocal
  \/ DispatchForward
  \/ InnerEmpty
  \/ OuterLoop
  \/ HandshakePoll
  \/ HandshakeSettle
  \/ WaitFirstByte
  \/ ReadUntilHash
  \/ LoopPoll
  \/ CheckReset

\* the head of the outer loop reads a later time than it did before
TimePasses == OuterLoop /\ (idle' > idle \/ pc' = "poll")

NextReset == Next \/ ResetAsserted \/ ClientPoll

SpecReset ==
  /\ Init
  /\ [][NextReset]_vars
  /\ WF_vars(BridgeStep)
  /\ SF_vars(TimePasses)

(***************************************************************************)
(* The same program with a controller that may go on sending without a     *)
(* pause, so that a byte is available at every poll of the serial line.    *)
(***************************************************************************)
\* The controller has the next 'K' in the receive buffer before the loop
\* that empties it looks again.
TeensyStream ==
  /\ pc \in {"hsK", "rd2"}
  /\ rx = <<>>
  /\ rx' = <<"K">>
  /\ UNCHANGED <<pc, caller, sock, sent, lx200Cmd, receivingCmd, idle,
                 truncCmd, waited, tResponse, teensySent, wifiIpReceived,
                 resetLow, fed, dispatched, response, readEnd, clientOut,
                 teensyOut, hsEnd, staleRx, ended>>

NextStream == Next \/ TeensyStream

SpecStream ==
  /\ Init
  /\ [][NextStream]_vars
  /\ WF_vars(BridgeStep)

(***************************************************************************)
(* Properties.                                                             *)
(***************************************************************************)
\* a command has been dispatched by the bridge's latest step, or its
\* forward has just returned
Done == dispatched # <<>> /\ pc \in {"inner", "yield"}

\* the bytes read since the last dispatch, probe bytes left out
Payload(bytes) == SelectSeq(bytes, LAMBDA c : c # ACK)

\* the ':'...'#' span of a run of bytes that ends a command: from the first
\* ':' to the final '#'; empty when the run does not end a command
Framed(bytes) ==
  LET n == Len(bytes)
      colons == { i \in 1..n : bytes[i] = ":" }
  IN IF n > 0 /\ bytes[n] = "#" /\ colons # {}
     THEN SubSeq(bytes, CHOOSE i \in colons : \A j \in colons : i <= j, n)
     ELSE <<>>

LocalCommands == { CmdGVP, CmdGVN, CmdGVD, CmdGVT }

\* the bytes of a forwarded command as the Transport Channel is to see them
Forwarded(cmd) ==
  IF cmd = CmdSG THEN <<":", "S", "G", "+", "0", "6", "#">> ELSE cmd

\* C1: a command is dispatched exactly when a '#' arrives while a ':' has
\* been seen since the last dispatch, and it is the bytes from that first ':'
\* through the '#', probe bytes left out; bytes before the ':' are dropped and
\* a later ':' is payload.
C1_Framing == dispatched = Framed(Payload(fed))

\* C1 witness: a command with a stray '#' in front and a ':' inside
C1_Witness ==
  /\ dispatched # <<>>
  /\ fed[1] = "#"
  /\ \E i \in 2..Len(dispatched) : dispatched[i] = ":"

\* C2: dispatching a command of the no-response set writes nothing to the
\* client, whatever the controller replied.
C2_NoResponseSilent ==
  Done /\ dispatched \in NoResponseSet => clientOut = <<>>

\* C2 witness: a no-response command for which a terminated reply was read
C2_Witness ==
  /\ Done
  /\ dispatched \in NoResponseSet
  /\ response = <<"1", "#">>
  /\ clientOut = <<>>

C5_BoolCompression ==
  ( /\ Done
    /\ dispatched \notin LocalCommands
    /\ dispatched \notin NoResponseSet
    /\ ~startsWith(dispatched, PrefixSC)
    /\ dispatched # CmdQ )
  => clientOut = IF response = <<"0", "#">> THEN <<"0">>
                 ELSE IF response = <<"1", "#">> THEN <<"1">>
                 ELSE response

\* C5 witness: a plain command got '0#' and '0' went out
C5_Witness ==
  /\ Done
  /\ dispatched = <<":", "G", "D", "#">>
  /\ response = <<"0", "#">>
  /\ clientOut = <<"0">>

\* C6: in either framing state the byte 0x06 writes the one byte 'A' to the
\* client, nothing to the Transport Channel, and leaves the receiving flag
\* and the accumulator as they were; the command dispatched later holds no
\* probe byte and is the one framed without it.
C6_Probe ==
  /\ [][ (pc = "inner" /\ sock # <<>> /\ Head(sock) = ACK) =>
           /\ clientOut' = <<"A">>
           /\ teensyOut' = <<>>
           /\ rx' = rx
           /\ receivingCmd' = receivingCmd
           /\ lx200Cmd' = lx200Cmd
           /\ pc' = "inner" ]_vars
  /\ [](dispatched # <<>> =>
          /\ \A i \in 1..Len(dispatched) : dispatched[i] # ACK
          /\ dispatched = Framed(Payload(fed)))

\* C6 witness: the probe was answered while ':Q' was being accumulated
C6_Witness ==
  /\ clientOut = <<"A">>
  /\ receivingCmd
  /\ lx200Cmd = <<":", "Q">>

C8_LocalAnswer ==
  [][ ( /\ pc = "inner" /\ sock # <<>> /\ Head(sock) = "#" /\ receivingCmd
        /\ Append(lx200Cmd, "#") \in LocalCommands ) =>
        /\ dispatched' = Append(lx200Cmd, "#")
        /\ clientOut' = ( CASE dispatched' = CmdGVP -> ProductName
                            [] dispatched' = CmdGVN -> FirmwareVersion
                            [] dispatched' = CmdGVD -> FirmwareDate
                            [] dispatched' = CmdGVT -> FirmwareTime )
        /\ endsWithHash(clientOut')
        /\ teensyOut' = <<>>
        /\ rx' = rx
        /\ pc' = "inner" ]_vars

\* C8 witness: :GVT# has been answered locally
C8_Witness ==
  /\ Done
  /\ dispatched = CmdGVT
  /\ clientOut = FirmwareTime
  /\ teensyOut = <<>>

\* C9: ':SG+06.0#' goes to the Transport Channel as ':SG+06#', every other
\* forwarded command byte for byte as it was framed, and the poll of loop
\* as ':GI#'.
C9_ForwardedBytes ==
  /\ dispatched # <<>> /\ Len(teensyOut) > 1 =>
       SubSeq(teensyOut, 2, Len(teensyOut) - 1) = Forwarded(dispatched)
  /\ caller = "loop" /\ Len(teensyOut) > 1 =>
       SubSeq(teensyOut, 2, Len(teensyOut) - 1) = CmdGI

\* C9 witness: ':SG+06.0#' has been written
C9_Witness ==
  /\ dispatched = CmdSG
  /\ teensyOut = <<"L", ":", "S", "G", "+", "0", "6", "#", READ>>

\* C10: for a command without a local answer the Transport Channel sees one
\* 'L', then the command once, then the one response read, in this order,
\* also when the handshake or the read times out.
C10_ForwardOnce ==
  dispatched # <<>> /\ dispatched \notin LocalCommands =>
    IF pc \in {"hs", "hsK"}
    THEN teensyOut = <<"L">>
    ELSE teensyOut = <<"L">> \o Forwarded(dispatched) \o <<READ>>

\* C10 witness: a no-response command whose read timed out was written once
C10_Witness ==
  /\ Done
  /\ dispatched = <<":", "R", "S", "#">>
  /\ readEnd = "nofirst"
  /\ teensyOut = <<"L", ":", "R", "S", "#", READ>>


\* the bytes that go to the Transport Channel for the forward in progress
Written == IF caller = "client" THEN Forwarded(dispatched) ELSE CmdGI

InRead == pc \in {"rd1", "rd2"}

\* C11: when no 'K' arrives within the handshake timeout the handshake ends
\* without a second 'L', the command is still written once and the response
\* is still read to its end: the forward is not given up.
C11_FailOpen ==
  /\ [][ pc = "hs" /\ pc' # "hs" /\ pc' # "hsK" =>
           /\ waited >= TEENSY_ACK_TIMEOUT
           /\ hsEnd' = "timeout"
           /\ pc' = "rd1"
           /\ teensyOut' = <<"L">> \o truncCmd \o <<READ>> ]_vars
  /\ [](hsEnd = "timeout" => teensyOut = <<"L">> \o Written \o <<READ>>)
  /\ [][ hsEnd = "timeout" /\ InRead /\ ~InRead' =>
           readEnd' \in {"nofirst", "hash", "partial"} ]_vars

\* C11 witness: no 'K' came, the command was forwarded all the same and its
\* reply went to the client
C11_Witness ==
  /\ Done
  /\ hsEnd = "timeout"
  /\ readEnd = "hash"
  /\ response = <<"1", "#">>
  /\ clientOut = <<"1">>


\* C12: a connection never goes on once more than 10000 time units have
\* passed since its last byte: the loop then exits to loop(), which accepts
\* the next client, with the framer waiting for ':' or holding an
\* unterminated command alike; every byte read, the probe byte included,
\* restarts the count.
C12_IdleTimeout ==
  /\ [](caller = "client" => idle <= CLIENT_TIMEOUT)
  /\ [][ pc = "yield" /\ pc' \notin {"yield", "inner"} =>
           /\ pc' = "poll"
           /\ ended'.how \in {"timeout", "closed"}
           /\ ended'.receiving = receivingCmd
           /\ sock' = <<>> /\ lx200Cmd' = <<>> /\ ~receivingCmd' ]_vars
  /\ [][ pc = "inner" /\ sock # <<>> => idle' = 0 /\ sock' = Tail(sock) ]_vars
  /\ [](ended.how # "none" => pc \notin {"inner", "yield"})

\* C12 witness: a connection that held an unterminated command was ended by
\* the idle timeout
C12_Witness ==
  /\ pc = "poll"
  /\ ended = [how |-> "timeout", receiving |-> TRUE]


NoHashIn(text) == \A i \in 1..Len(text) : text[i] # "#"

\* a forwarded command outside the no-response set and the two overrides
Plain(cmd) ==
  /\ cmd \notin LocalCommands
  /\ cmd \notin NoResponseSet
  /\ ~startsWith(cmd, PrefixSC)
  /\ cmd # CmdQ

\* C13 as claimed: the partial text that is returned when phase 2 expires is
\* written to the client as it is.
C13_Original == Done /\ readEnd = "partial" => clientOut = response

\* C13: once the first byte has arrived the read returns the text
\* accumulated up to and including the first '#' when that byte is read in
\* phase 2, and the text accumulated so far, without a '#', when phase 2
\* expires; the partial text goes to the client as it is unless the command
\* is of the no-response set (nothing is written) or is ':SC...' or ':Q#'
\* (the override is written when the text is not empty).
C13_PartialReply ==
  /\ [](pc = "rd2" => NoHashIn(tResponse))
  /\ [][ pc = "rd2" /\ pc' = "rd2" /\ rx' # rx /\ Len(rx') < Len(rx) =>
           tResponse' = IF Head(rx) \in {"K", "LF", "CR"}
                        THEN tResponse
                        ELSE Append(tResponse, Head(rx)) ]_vars
  /\ [][ pc = "rd2" /\ pc' # "rd2" =>
           \/ /\ readEnd' = "hash"
              /\ rx # <<>> /\ Head(rx) = "#"
              /\ response' = Append(tResponse, "#")
           \/ /\ readEnd' = "partial"
              /\ rx = <<>>
              /\ response' = tResponse ]_vars
  /\ [](Done /\ readEnd = "partial" =>
          clientOut = IF dispatched \in NoResponseSet \/ response = <<>>
                      THEN <<>>
                      ELSE IF dispatched = CmdQ THEN <<"1">>
                      ELSE IF startsWith(dispatched, PrefixSC)
                           THEN PlanetaryReply
                      ELSE response)

\* C13 witness: phase 2 expired after '0' and the client got '0'
C13_Witness ==
  /\ Done
  /\ Plain(dispatched)
  /\ readEnd = "partial"
  /\ response = <<"0">>
  /\ clientOut = <<"0">>


\* a forward is in progress: from the write of 'L' to the return of the read
InFlight == pc \in {"hs", "hsK", "rd1", "rd2"}

IsPrefix(a, b) == Len(a) <= Len(b) /\ SubSeq(b, 1, Len(a)) = a

\* C14: from the write of a command's 'L' until its response read has
\* returned the Transport Channel carries that command only: the caller and
\* the command stay the same, what is written is a prefix of 'L', the
\* command, one read, and outside a forward nothing is read from the channel.
C14_OneInFlight ==
  /\ [][ InFlight =>
           /\ caller' = caller
           /\ dispatched' = dispatched
           /\ IsPrefix(teensyOut, teensyOut')
           /\ (InFlight' => truncCmd' = truncCmd) ]_vars
  /\ [](InFlight =>
          /\ truncCmd = Written
          /\ IsPrefix(teensyOut, <<"L">> \o Written \o <<READ>>))
  /\ [][ ~InFlight =>
           /\ (rx' = rx \/ (pc = "reset" /\ resetLow))
           /\ (InFlight' => teensyOut' = <<"L">>) ]_vars

\* C14 witness: after a connection has ended the poll of loop has its own
\* ':GI#' in flight
C14_Witness ==
  /\ pc = "rd2"
  /\ caller = "loop"
  /\ ended.how = "closed"
  /\ teensyOut = <<"L">> \o CmdGI \o <<READ>>


\* C15 as claimed: whenever the reset line is held low the process restarts
\* in the end, also while a client connection is being served.
C15_ResetRestarts == resetLow ~> ~resetLow


\* C16 as claimed: for a command of the no-response set the connection loop
\* goes back to the client's bytes once the command is written: the waits of
\* the response read are not run for it.
C16_NoWait == Done /\ dispatched \in NoResponseSet => readEnd = "none"


\* C17: after a no-response command the connection loop is still in the
\* connection with the socket buffer as it was; it leaves only when the
\* client is gone, never by the idle timeout, and goes on reading the
\* buffered bytes from the front, so that the command behind it is framed
\* and dispatched next.
C17_NextCommandKept ==
  /\ [][ caller = "client" /\ dispatched \in NoResponseSet /\ InRead /\ ~InRead' =>
           pc' = "yield" /\ sock' = sock /\ ~receivingCmd' ]_vars
  /\ [][ pc = "yield" /\ dispatched \in NoResponseSet /\ pc' # "yield" =>
           \/ pc' = "inner" /\ sock' = sock /\ ~receivingCmd'
           \/ pc' = "poll" /\ ended'.how = "closed" ]_vars
  /\ [][ pc = "inner" /\ sock # <<>> =>
           /\ sock' = Tail(sock)
           /\ fed' = (IF dispatched # <<>> THEN <<>> ELSE fed) \o <<Head(sock)>> ]_vars
  /\ [](fed = <<":", "G", "R", "#">> => dispatched = fed)

\* C17 witness: ':GR#' was in the socket buffer behind ':RS#' and has been
\* dispatched and answered
C17_Witness ==
  /\ Done
  /\ sent = 1
  /\ dispatched = <<":", "G", "R", "#">>
  /\ readEnd = "hash"
  /\ clientOut = <<"1">>


\* C18 as claimed: while the connection loop reads the client the
\* accumulator is empty or a partially filled command, which starts with ':'
\* and holds no '#'.
C18_Accumulator ==
  pc \in {"inner", "yield"} =>
    \/ lx200Cmd = <<>>
    \/ lx200Cmd[1] = ":" /\ NoHashIn(lx200Cmd)


\* C19 as claimed: every forward ends, whatever the controller does: the
\* dispatch returns to its caller.
C19_ForwardEnds == InFlight ~> ~InFlight


\* the bytes of a text that the response read does not skip
Kept(text) == SelectSeq(text, LAMBDA b : b \notin {"K", "LF", "CR"})

\* C20 as claimed: a reply that goes to the client for a forwarded command
\* holds no byte that the controller had sent before that command was
\* written, such as the late bytes of the reply to an earlier command.
C20_OwnReply ==
  Done /\ Plain(dispatched) /\ clientOut # <<>> => Kept(staleRx) = <<>>

====
